---- MODULE Spec2Model ----
(***************************************************************************)
(* Model of the gapstr crate.                                              *)
(*                                                                         *)
(* GapText (src/src/lib.rs) is a byte buffer `buf` with a gap              *)
(* `gap.start..gap.end` and a configured `base_gap_size`.  Bytes are       *)
(* naturals below 256, a Rust index i is position i + 1 of a TLA+          *)
(* sequence.  Every method is an operator that computes the buffer and     *)
(* the gap the code leaves behind together with the method's outcome; an   *)
(* outcome of "Panic" stands for any Rust panic (slice index, failed       *)
(* assertion, the invalid_offset guard, usize overflow, which the dev      *)
(* profile the crate's tests run under checks).  A panic unwinds out of    *)
(* the caller, so the model records it and takes no further step.          *)
(***************************************************************************)
EXTENDS Integers, Sequences, FiniteSets, TLC

\* src/src/lib.rs:14
DEFAULT_GAP_SIZE == 512

\* ---- bounds of the model ----
MaxInitLen == 2   \* byte length of the initial string
MaxInsLen == 2    \* byte length of an inserted / replacing string
MaxLen == 4       \* an edit is taken when the text stays within MaxLen bytes
MaxGapSize == 1   \* with_gap_size(s, n) for n in 0..MaxGapSize, and new(s)
MaxOps == 2       \* method calls after construction
MaxSpare == 3     \* spare capacity of the Vec when get_str is called
MaxRawLen == 3    \* elements of a RawGapBuf
MaxRawGap == 2    \* gap_size of new_with
MaxGrow == 2      \* `by` of grow_gap and grow_gap_at
MaxDrain == 4     \* elements a Drain is made over

\* ---- bytes and UTF-8 ----
\* the characters of the texts: 'a', 'b' and the two-byte U+00E9
CharA == <<97>>
CharB == <<98>>
CharE == <<195, 169>>

RECURSIVE Utf8Strs(_, _)
Utf8Strs(chars, n) ==
    IF n = 0 THEN {<<>>}
    ELSE LET prev == Utf8Strs(chars, n - 1)
         IN prev \cup {x \in {s \o c : s \in prev, c \in chars} : Len(x) <= n}

InitStrs == Utf8Strs({CharA, CharE}, MaxInitLen)
\* inserted strings: runs of 'b' up to MaxInsLen bytes, and the two-byte character
InsStrs == Utf8Strs({CharB}, MaxInsLen) \cup {CharE}
\* positions handed to the methods: inside, at the end of and past the end of the
\* texts shorter than MaxLen
Positions == 0..MaxLen
\* a..b with a <= b
OrderedRanges == {r \in Positions \X Positions : r[1] <= r[2]}
AllRanges == Positions \X Positions
GapSizes == (0..MaxGapSize) \cup {DEFAULT_GAP_SIZE}
\* buf.capacity() - buf.len(): the allocator decides it, any value can be met
SpareLens == 0..MaxSpare

Max(a, b) == IF a >= b THEN a ELSE b
Min(a, b) == IF a <= b THEN a ELSE b
AbsDiff(a, b) == IF a >= b THEN a - b ELSE b - a
SaturatingSub(a, b) == IF a >= b THEN a - b ELSE 0

\* b[i..j] for 0 <= i <= j <= b.len()
Slice(b, i, j) == SubSeq(b, i + 1, j)
\* b[i..i + s.len()].copy_from_slice(s)
CopyInto(b, i, s) == Slice(b, 0, i) \o s \o Slice(b, i + Len(s), Len(b))
\* <[u8]>::rotate_right(k), <[u8]>::rotate_left(k) for k <= q.len()
RotateRight(q, k) == SubSeq(q, Len(q) - k + 1, Len(q)) \o SubSeq(q, 1, Len(q) - k)
RotateLeft(q, k) == SubSeq(q, k + 1, Len(q)) \o SubSeq(q, 1, k)
Zeros(n) == [i \in 1..n |-> 0]

\* utils::u8_is_char_boundry: a byte is a boundary unless its top two bits are 10
u8_is_char_boundry(b) == ~(b >= 128 /\ b < 192)

\* Range<usize>::len and Range<usize>::is_empty of the gap
RangeLen(g) == IF g.start < g.end THEN g.end - g.start ELSE 0
RangeIsEmpty(g) == ~(g.start < g.end)
Gap(s, e) == [start |-> s, end |-> e]

\* ---- outcomes of the mutating methods ----
Ok(b, g) == [res |-> "Ok", buf |-> b, gap |-> g, elen |-> 0, etarget |-> 0]
Panic(b, g) == [res |-> "Panic", buf |-> b, gap |-> g, elen |-> 0, etarget |-> 0]
OutOfBounds(b, g, l, t) ==
    [res |-> "OutOfBounds", buf |-> b, gap |-> g, elen |-> l, etarget |-> t]
NotCharBoundry(b, g) ==
    [res |-> "NotCharBoundry", buf |-> b, gap |-> g, elen |-> 0, etarget |-> 0]

\* the bytes outside the gap, in order: the logical text
Text(b, g) ==
    Slice(b, 0, Min(g.start, Len(b))) \o Slice(b, Min(Max(g.end, g.start), Len(b)), Len(b))

\* GapText::len; -1 when the subtraction overflows
len(b, g) == IF Len(b) >= RangeLen(g) THEN Len(b) - RangeLen(g) ELSE -1

\* str::is_char_boundary of a byte string
IsCharBoundary(t, p) ==
    p = 0 \/ p = Len(t) \/ (p < Len(t) /\ u8_is_char_boundry(t[p + 1]))

shift_gap_right(g, by) == Gap(g.start + by, g.end + by)
shift_gap_left(g, by) == Gap(g.start - by, g.end - by)

surrounds_gap_range(g, pos) ==
    IF g.start < pos /\ g.end + RangeLen(g) > pos /\ pos - g.start <= RangeLen(g)
    THEN [dir |-> "Right", n |-> pos - g.start]
    ELSE IF pos < g.start /\ SaturatingSub(g.start, RangeLen(g)) <= pos
            /\ g.start - pos <= RangeLen(g)
    THEN [dir |-> "Left", n |-> g.start - pos]
    ELSE [dir |-> "False", n |-> 0]

\* the guard in front of copy_nonoverlapping
invalid_offset(b, src, dst, cnt) ==
    Len(b) <= Max(src, dst) + cnt \/ AbsDiff(src, dst) < cnt

move_gap_start_to(b, g, to) ==
    LET glen == RangeLen(g) IN
    IF g.start = to THEN Ok(b, g)
    ELSE IF RangeIsEmpty(g) THEN Ok(b, Gap(to, to))
    ELSE IF Len(b) < glen THEN Panic(b, g)
    ELSE IF Len(b) - glen < to THEN OutOfBounds(b, g, Len(b) - glen, to)
    ELSE LET sd == surrounds_gap_range(g, to) IN
         IF sd.dir = "False" THEN
            IF g.start > to THEN
               IF g.end > Len(b) THEN Panic(b, g)
               ELSE Ok(Slice(b, 0, to) \o RotateRight(Slice(b, to, g.end), glen)
                          \o Slice(b, g.end, Len(b)),
                       shift_gap_left(g, g.start - to))
            ELSE Ok(Slice(b, 0, g.start)
                       \o RotateLeft(Slice(b, g.start, to + glen), glen)
                       \o Slice(b, to + glen, Len(b)),
                    shift_gap_right(g, to - g.start))
         ELSE LET src == IF sd.dir = "Right" THEN g.end ELSE to
                  dst == IF sd.dir = "Right" THEN g.start ELSE g.end - sd.n
                  cnt == sd.n
              IN IF invalid_offset(b, src, dst, cnt) THEN Panic(b, g)
                 ELSE Ok(CopyInto(b, dst, Slice(b, src, src + cnt)),
                         IF sd.dir = "Right" THEN shift_gap_right(g, sd.n)
                                             ELSE shift_gap_left(g, sd.n))

insert_gap(b, g, base, at) ==
    IF g.start # g.end THEN Panic(b, g)
    ELSE LET b1 == b \o Zeros(base) IN
         IF at > Len(b1) THEN Panic(b, g)
         ELSE Ok(Slice(b1, 0, at) \o RotateRight(Slice(b1, at, Len(b1)), base),
                 Gap(at, at + base))

\* the branch of insert for a string that fits the gap, which starts at `at`
insert_fits(b1, g1, s) ==
    IF g1.start + Len(s) > Len(b1) THEN Panic(b1, g1)
    ELSE Ok(CopyInto(b1, g1.start, s), Gap(g1.start + Len(s), g1.end))

\* a slip in the rotation: the bytes already written into the old gap are counted again
insert_overflow_norotfix(b1, g1, base, at, s) ==
    IF g1.start > g1.end \/ g1.end > Len(b1) THEN Panic(b1, g1)
    ELSE LET inserted == RangeLen(g1)
             b2 == CopyInto(b1, g1.start, Slice(s, 0, inserted))
             g2 == Gap(g1.end, g1.end)
             b3 == b2 \o Slice(s, inserted, Len(s))
             ig == insert_gap(b3, g2, base, Len(b3))
             k == Len(s) + RangeLen(ig.gap)
         IN IF ig.res # "Ok" \/ at + inserted > Len(ig.buf)
               \/ k > Len(ig.buf) - (at + inserted)
            THEN Panic(b1, g1)
            ELSE Ok(Slice(ig.buf, 0, at + inserted)
                       \o RotateRight(Slice(ig.buf, at + inserted, Len(ig.buf)), k),
                    Gap(at + Len(s), at + Len(s) + base))

\* a slip in the new gap: it is given the default length, not the configured one
insert_overflow_defaultgap(b1, g1, base, at, s) ==
    IF g1.start > g1.end \/ g1.end > Len(b1) THEN Panic(b1, g1)
    ELSE LET inserted == RangeLen(g1)
             b2 == CopyInto(b1, g1.start, Slice(s, 0, inserted))
             g2 == Gap(g1.end, g1.end)
             b3 == b2 \o Slice(s, inserted, Len(s))
             ig == insert_gap(b3, g2, DEFAULT_GAP_SIZE, Len(b3))
             k == Len(s) - inserted + RangeLen(ig.gap)
         IN IF ig.res # "Ok" \/ at + inserted > Len(ig.buf)
               \/ k > Len(ig.buf) - (at + inserted)
            THEN Panic(b1, g1)
            ELSE Ok(Slice(ig.buf, 0, at + inserted)
                       \o RotateRight(Slice(ig.buf, at + inserted, Len(ig.buf)), k),
                    Gap(at + Len(s), at + Len(s) + DEFAULT_GAP_SIZE))

\* the branch of insert for a string longer than the gap: fill the gap, append the
\* rest and a fresh gap, rotate both in front of the text after `at`
insert_overflow(b1, g1, base, at, s) ==
    IF g1.start > g1.end \/ g1.end > Len(b1) THEN Panic(b1, g1)
    ELSE LET inserted == RangeLen(g1)
             b2 == CopyInto(b1, g1.start, Slice(s, 0, inserted))
             g2 == Gap(g1.end, g1.end)
             b3 == b2 \o Slice(s, inserted, Len(s))
             ig == insert_gap(b3, g2, base, Len(b3))
             k == Len(s) - inserted + RangeLen(ig.gap)
         IN IF ig.res # "Ok" \/ at + inserted > Len(ig.buf)
               \/ k > Len(ig.buf) - (at + inserted)
            THEN Panic(b1, g1)
            ELSE Ok(Slice(ig.buf, 0, at + inserted)
                       \o RotateRight(Slice(ig.buf, at + inserted, Len(ig.buf)), k),
                    Gap(at + Len(s), at + Len(s) + base))

insert(b, g, base, at, s) ==
    LET m == move_gap_start_to(b, g, at) IN
    IF m.res # "Ok" THEN m
    ELSE LET b1 == m.buf
             g1 == m.gap
             glen == RangeLen(g1)
         IN
         IF Len(b1) < glen THEN Panic(b1, g1)
         ELSE IF at >= Len(b1) THEN OutOfBounds(b1, g1, Len(b1) - glen, at)
         ELSE IF ~u8_is_char_boundry(b1[at + 1]) THEN NotCharBoundry(b1, g1)
         ELSE IF Len(s) <= glen THEN insert_fits(b1, g1, s)
         ELSE insert_overflow(b1, g1, base, at, s)

delete(b, g, start, end) ==
    LET m == move_gap_start_to(b, g, end) IN
    IF m.res # "Ok" THEN m
    ELSE IF m.gap.start # end \/ end < start \/ m.gap.start < end - start
    THEN Panic(m.buf, m.gap)
    ELSE Ok(m.buf, Gap(m.gap.start - (end - start), m.gap.end))

replace(b, g, base, start, end, s) ==
    IF end < start THEN Panic(b, g)
    ELSE
    LET rlen == end - start
        to == Max(rlen, Len(s))
        m == move_gap_start_to(b, g, start + to)
    IN
    IF m.res # "Ok" THEN m
    ELSE IF m.gap.start < SaturatingSub(rlen, Len(s)) THEN Panic(m.buf, m.gap)
    ELSE LET b1 == m.buf
             g1 == Gap(m.gap.start - SaturatingSub(rlen, Len(s)), m.gap.end)
             glen == RangeLen(g1)
         IN
         IF glen + SaturatingSub(Len(s), rlen) <= glen THEN
            IF start + Len(s) > Len(b1) THEN Panic(b1, g1)
            ELSE Ok(CopyInto(b1, start, s),
                    Gap(g1.start + SaturatingSub(Len(s), rlen), g1.end))
         ELSE IF g1.end < start \/ g1.end > Len(b1) \/ g1.end - start > Len(s)
         THEN Panic(b1, g1)
         ELSE LET k == g1.end - start
                  b2 == CopyInto(b1, start, Slice(s, 0, k))
                  b3 == (b2 \o Slice(s, k, Len(s))) \o Zeros(DEFAULT_GAP_SIZE)
                  rot == Len(s) - k + base
              IN IF rot > Len(b3) THEN Panic(b1, g1)
                 ELSE Ok(RotateRight(b3, rot),
                         Gap(start + Len(s), start + Len(s) + base))

\* ---- reading ----
\* a RangeBounds<usize> argument: `a..b` and `..`
RangeOf(a, b) == [sb |-> "Included", si |-> a, eb |-> "Excluded", ei |-> b]
RangeFull == [sb |-> "Unbounded", si |-> 0, eb |-> "Unbounded", ei |-> 0]

get_range(max, r) ==
    [start |-> IF r.sb = "Unbounded" THEN 0
               ELSE IF r.sb = "Excluded" THEN r.si + 1 ELSE r.si,
     end |-> IF r.eb = "Unbounded" THEN max
             ELSE IF r.eb = "Excluded" THEN r.ei ELSE r.ei + 1]

start_byte_pos_with_offset(g, byte_pos) ==
    IF g.start > byte_pos THEN byte_pos ELSE RangeLen(g) + byte_pos

end_byte_pos_with_offset(g, byte_pos) ==
    IF g.start >= byte_pos THEN byte_pos ELSE RangeLen(g) + byte_pos

\* a slip in the comparison: a range that ends or starts at the gap counts as split
is_get_single_strict(gap_start, start, end) == end < gap_start \/ gap_start < start

is_get_single(gap_start, start, end) == end <= gap_start \/ gap_start <= start

is_get_char_boundry(b, b1, end_index) ==
    u8_is_char_boundry(b1)
    /\ (end_index >= Len(b) \/ u8_is_char_boundry(b[end_index + 1]))

\* Option<GapSlice>: None, Some(Single(s1)), Some(Spaced(s1, s2)), or a panic
View(k, s1, s2) == [kind |-> k, s1 |-> s1, s2 |-> s2]

get_raw(b, g, r) ==
    IF Len(b) < RangeLen(g) THEN View("Panic", <<>>, <<>>)
    ELSE
    LET s_len == Len(b) - RangeLen(g)
        rr == get_range(s_len, r)
        start == rr.start
        end == rr.end
    IN
    IF start > end \/ s_len < end THEN View("None", <<>>, <<>>)
    ELSE
    LET swo == start_byte_pos_with_offset(g, start)
        ewo == end_byte_pos_with_offset(g, end)
    IN
    IF ~(swo <= ewo) THEN View("Panic", <<>>, <<>>)
    ELSE IF swo >= Len(b) THEN View("Panic", <<>>, <<>>)
    ELSE IF ~is_get_char_boundry(b, b[swo + 1], ewo) THEN View("None", <<>>, <<>>)
    ELSE IF is_get_single(g.start, start, end) THEN
        IF ewo > Len(b) THEN View("Panic", <<>>, <<>>)
        ELSE View("Single", Slice(b, swo, ewo), <<>>)
    ELSE IF swo # start \/ ~(end # ewo \/ RangeIsEmpty(g)) THEN View("Panic", <<>>, <<>>)
    ELSE IF swo > g.start \/ g.start > Len(b) \/ g.end > ewo \/ ewo > Len(b)
    THEN View("Panic", <<>>, <<>>)
    ELSE View("Spaced", Slice(b, swo, g.start), Slice(b, g.end, ewo))

\* GapText::get
get(b, g, r) == get_raw(b, g, r)

\* Option<&str> of get_str together with the buffer it leaves: None, Some(s), or a
\* panic; scratch names the area the string was assembled in
StrView(k, s, b, g, scratch) == [kind |-> k, s |-> s, buf |-> b, gap |-> g, scratch |-> scratch]

\* the area get_str assembles a range across the gap in
scratch_area(gap_len, spare_len, read_len) ==
    IF gap_len > read_len THEN "Gap"
    ELSE IF spare_len > read_len THEN "Spare"
    ELSE "Reserved"

\* a slip in the second copy: the piece behind the gap lands on top of the first one
assemble_nooffset(area, s1, s2) == CopyInto(CopyInto(area, 0, s1), 0, s2)

\* the two copy_from_nonoverlapping calls into the scratch area
assemble(area, s1, s2) == CopyInto(CopyInto(area, 0, s1), Len(s1), s2)

\* a contiguous view made the way RawGapBuf::get_slice makes it, by moving the gap
\* behind the range, instead of copying into a scratch area
get_str_moving(b, g, spare_len, r) ==
    IF Len(b) < RangeLen(g) THEN StrView("Panic", <<>>, b, g, "No")
    ELSE
    LET rr == get_range(Len(b) - RangeLen(g), r)
        v == get_raw(b, g, RangeOf(rr.start, rr.end))
        m == move_gap_start_to(b, g, rr.end)
    IN
    IF v.kind \in {"Panic", "None"} THEN StrView(v.kind, <<>>, b, g, "No")
    ELSE IF v.kind = "Single" THEN StrView("Str", v.s1, b, g, "No")
    ELSE IF m.res # "Ok" THEN StrView("Panic", <<>>, b, g, "No")
    ELSE StrView("Str", Slice(m.buf, rr.start, rr.end), m.buf, m.gap, "No")

\* GapText::get_str; spare_len is buf.capacity() - buf.len().  The bytes of the spare
\* capacity are not part of buf: the string assembled there is the only thing read
\* from them
get_str(b, g, spare_len, r) ==
    IF Len(b) < RangeLen(g) THEN StrView("Panic", <<>>, b, g, "No")
    ELSE
    LET rr == get_range(Len(b) - RangeLen(g), r)
        read_len == RangeLen(rr)
        v == get_raw(b, g, RangeOf(rr.start, rr.end))
        area == scratch_area(RangeLen(g), spare_len, read_len)
        v2 == get(b, g, RangeOf(rr.start, rr.end))
    IN
    IF v.kind \in {"Panic", "None"} THEN StrView(v.kind, <<>>, b, g, "No")
    ELSE IF v.kind = "Single" THEN StrView("Str", v.s1, b, g, "No")
    ELSE IF area = "Gap" /\ g.start + read_len > Len(b) THEN StrView("Panic", <<>>, b, g, area)
    ELSE IF v2.kind = "None" THEN StrView("None", <<>>, b, g, area)
    ELSE IF v2.kind # "Spaced" THEN StrView("Panic", <<>>, b, g, area)
    ELSE IF area = "Gap" THEN
        LET b1 == CopyInto(b, g.start,
                           assemble(Slice(b, g.start, g.start + read_len), v2.s1, v2.s2))
        IN StrView("Str", Slice(b1, g.start, g.start + read_len), b1, g, area)
    ELSE StrView("Str", assemble(Zeros(read_len), v2.s1, v2.s2), b, g, area)

\* ---- RawGapBuf<T>, T not zero-sized (src/src/raw_gap_buf/raw.rs) ----
\* One allocation `mem` of total_len slots; start is the slice mem[0..start_len], end
\* is the slice of end_len slots at offset end_ptr from the start pointer.  Elements
\* are positive numbers, a slot that was never written holds 0.  The buffer of new()
\* owns no allocation: mem is empty and both slices are empty and dangling.
RawBuf(m, sl, ep, el) == [mem |-> m, start_len |-> sl, end_ptr |-> ep, end_len |-> el]
Uninit(n) == [i \in 1..n |-> 0]

\* RawGapBuf::new
raw_new == RawBuf(<<>>, 0, 0, 0)

\* RawGapBuf::new_with(start, gap_size, end); a layout of size 0 is not allocated
new_with(start, gap_size, end) ==
    IF Len(start) + Len(end) + gap_size = 0 THEN raw_new
    ELSE RawBuf(start \o Uninit(gap_size) \o end, Len(start), Len(start) + gap_size, Len(end))

start_len(rb) == rb.start_len
end_len(rb) == rb.end_len
\* RawGapBuf::len
raw_len(rb) == start_len(rb) + end_len(rb)
\* end_ptr.offset_from(start_ptr) - start_len
gap_len(rb) == rb.end_ptr - start_len(rb)
total_len(rb) == rb.end_ptr + end_len(rb)
\* get_parts: the start slice and the end slice
get_parts(rb) ==
    <<Slice(rb.mem, 0, start_len(rb)), Slice(rb.mem, rb.end_ptr, rb.end_ptr + end_len(rb))>>

start_with_offset(rb, start) ==
    IF start >= start_len(rb) THEN start + gap_len(rb) ELSE start

end_with_offset(rb, end) ==
    IF end > start_len(rb) THEN end + gap_len(rb) ELSE end

\* a slip in the shift: the end slice shrinks but its pointer stays
shift_gap_endstays(rb, by) ==
    RawBuf(rb.mem, start_len(rb) + by, rb.end_ptr, end_len(rb) - by)

\* shift_gap(by): the start slice grows by `by`, the end slice moves and shrinks by it
shift_gap(rb, by) ==
    RawBuf(rb.mem, start_len(rb) + by, rb.end_ptr + by, end_len(rb) - by)

\* outcomes of the methods that take &mut self
RawOk(rb) == [res |-> "Ok", rb |-> rb]
RawPanic(rb) == [res |-> "Panic", rb |-> rb]
\* the process dies inside the allocator
RawAbort(rb) == [res |-> "Abort", rb |-> rb]

\* the block copy a move makes: which of the two copy calls, from and to which slot
\* of the allocation, how many elements
Copy(kind, src, dst, count) == [kind |-> kind, src |-> src, dst |-> dst, count |-> count]
NoCopy == Copy("None", 0, 0, 0)

\* a slip in the comparison: a move by exactly gap_len takes the overlapping copy
move_copy_strict(rb, to) ==
    LET sl == start_len(rb)
        g == gap_len(rb)
    IN
    IF ~(to <= raw_len(rb)) \/ sl = to THEN NoCopy
    ELSE IF to < sl /\ sl - to < g
    THEN Copy("Nonoverlapping", sl - (sl - to), sl + (g - (sl - to)), sl - to)
    ELSE IF to > sl /\ to - sl < g
    THEN Copy("Nonoverlapping", rb.end_ptr, sl, to - sl)
    ELSE IF to >= sl THEN Copy("Overlapping", rb.end_ptr, sl, to - sl)
    ELSE Copy("Overlapping", to, to + g, sl - to)

\* the copy of move_gap_start_to: copy_to_nonoverlapping in the two branches for a
\* distance of at most gap_len, copy_to in the fallback; none when the assertion
\* fails or the gap is already at `to`
move_copy(rb, to) ==
    LET sl == start_len(rb)
        g == gap_len(rb)
    IN
    IF ~(to <= raw_len(rb)) \/ sl = to THEN NoCopy
    ELSE IF to < sl /\ sl - to <= g
    THEN Copy("Nonoverlapping", sl - (sl - to), sl + (g - (sl - to)), sl - to)
    ELSE IF to > sl /\ to - sl <= g
    THEN Copy("Nonoverlapping", rb.end_ptr, sl, to - sl)
    ELSE IF to >= sl THEN Copy("Overlapping", rb.end_ptr, sl, to - sl)
    ELSE Copy("Overlapping", to, to + g, sl - to)

\* a slip in the assertion: a position past the end is taken for the end
raw_move_gap_start_to_clamps(rb, to) ==
    LET sl == start_len(rb)
        g == gap_len(rb)
        t == Min(to, raw_len(rb))
        left == t < sl
        cc == IF left THEN sl - t ELSE t - sl
        src == IF left THEN t ELSE rb.end_ptr
        dst == IF left THEN t + g ELSE sl
    IN RawOk(shift_gap([rb EXCEPT !.mem = CopyInto(rb.mem, dst, Slice(rb.mem, src, src + cc))],
                       IF left THEN -cc ELSE cc))

\* a slip in the move to the right: the whole end slice is copied down, not only the
\* elements the gap passes
raw_move_gap_start_to_wholeend(rb, to) ==
    IF ~(to <= raw_len(rb)) THEN RawPanic(rb)
    ELSE IF start_len(rb) = to THEN RawOk(rb)
    ELSE
    LET sl == start_len(rb)
        g == gap_len(rb)
        left == to < sl
        cc == IF left THEN sl - to ELSE to - sl
        n == IF left THEN cc ELSE end_len(rb)
        src == IF left THEN to ELSE rb.end_ptr
        dst == IF left THEN to + g ELSE sl
    IN RawOk(shift_gap([rb EXCEPT !.mem = CopyInto(rb.mem, dst, Slice(rb.mem, src, src + n))],
                       IF left THEN -cc ELSE cc))

\* a slip in the move to the right: the elements are taken from the start of the gap
\* instead of the start of the end slice
raw_move_gap_start_to_wrongsrc(rb, to) ==
    IF ~(to <= raw_len(rb)) THEN RawPanic(rb)
    ELSE IF start_len(rb) = to THEN RawOk(rb)
    ELSE
    LET sl == start_len(rb)
        g == gap_len(rb)
        left == to < sl
        cc == IF left THEN sl - to ELSE to - sl
        src == IF left THEN to ELSE sl
        dst == IF left THEN to + g ELSE sl
    IN RawOk(shift_gap([rb EXCEPT !.mem = CopyInto(rb.mem, dst, Slice(rb.mem, src, src + cc))],
                       IF left THEN -cc ELSE cc))

\* RawGapBuf::move_gap_start_to
raw_move_gap_start_to(rb, to) ==
    IF ~(to <= raw_len(rb)) THEN RawPanic(rb)
    ELSE IF start_len(rb) = to THEN RawOk(rb)
    ELSE
    LET sl == start_len(rb)
        g == gap_len(rb)
        spare == sl
        small_left == to < sl /\ sl - to <= g
        small_right == to > sl /\ to - sl <= g
        left == IF small_left THEN TRUE ELSE IF small_right THEN FALSE ELSE ~(to >= sl)
        cc == IF left THEN sl - to ELSE to - sl
        src == IF small_left THEN sl - cc
               ELSE IF left THEN to
               ELSE rb.end_ptr
        dst == IF small_left THEN spare + (g - cc)
               ELSE IF left THEN to + g
               ELSE spare
        shift == IF left THEN -cc ELSE cc
    IN
    \* the debug assertion in front of copy_to_nonoverlapping
    IF (small_left \/ small_right) /\ ~(AbsDiff(src, dst) >= cc) THEN RawPanic(rb)
    ELSE RawOk(shift_gap([rb EXCEPT !.mem = CopyInto(rb.mem, dst, Slice(rb.mem, src, src + cc))],
                         shift))

\* a slip in the comparison: on a tie the gap is moved to the end of the range
move_gap_out_of_tieend(rb, start, end) ==
    IF ~(total_len(rb) >= end /\ start <= end) THEN RawPanic(rb)
    ELSE IF start > start_len(rb) \/ end <= start_len(rb) THEN RawOk(rb)
    ELSE LET to_right_copy == start_len(rb) - start
             to_left_copy == end - start_len(rb)
             move_to == IF to_right_copy >= to_left_copy THEN end ELSE start
         IN raw_move_gap_start_to(rb, move_to)

\* RawGapBuf::move_gap_out_of(start..end)
move_gap_out_of(rb, start, end) ==
    IF ~(total_len(rb) >= end /\ start <= end) THEN RawPanic(rb)
    ELSE IF start > start_len(rb) \/ end <= start_len(rb) THEN RawOk(rb)
    ELSE LET to_right_copy == start_len(rb) - start
             to_left_copy == end - start_len(rb)
             move_to == IF to_right_copy > to_left_copy THEN end ELSE start
         IN raw_move_gap_start_to(rb, move_to)

\* utils::get_range(len, start..end): the range when start <= end <= len, else None
utils_get_range(max, start, end) ==
    IF start > end \/ end > max THEN [some |-> FALSE, start |-> 0, end |-> 0]
    ELSE [some |-> TRUE, start |-> start, end |-> end]

\* utils::is_get_single
utils_is_get_single(gap_start, start, end) == end <= gap_start \/ gap_start <= start

\* what the reading methods return: None, one element, or one or two slices, and the
\* buffer the call leaves
RawView(k, s1, s2, rb) == [kind |-> k, s1 |-> s1, s2 |-> s2, rb |-> rb]

\* a slip in the index mapping: every index is read from the start of the allocation
raw_get_nooffset(rb, index) ==
    IF index >= raw_len(rb) THEN RawView("None", <<>>, <<>>, rb)
    ELSE RawView("Some", <<rb.mem[index + 1]>>, <<>>, rb)

\* RawGapBuf::get
raw_get(rb, index) ==
    IF index >= raw_len(rb) THEN RawView("None", <<>>, <<>>, rb)
    ELSE RawView("Some", <<rb.mem[start_with_offset(rb, index) + 1]>>, <<>>, rb)

\* a slip in the split case: the second slice ends at the requested end, counted
\* from the start of the end slice
raw_get_range_longend(rb, start, end) ==
    LET r == utils_get_range(raw_len(rb), start, end)
        parts == get_parts(rb)
    IN
    IF ~r.some THEN RawView("None", <<>>, <<>>, rb)
    ELSE IF utils_is_get_single(start_len(rb), start_with_offset(rb, r.start),
                                end_with_offset(rb, r.end))
    THEN RawView("Some", Slice(rb.mem, start_with_offset(rb, r.start),
                               start_with_offset(rb, r.start) + (r.end - r.start)), <<>>, rb)
    ELSE RawView("Some", Slice(parts[1], r.start, Len(parts[1])),
                 Slice(parts[2], 0, Min(r.end, Len(parts[2]))), rb)

\* RawGapBuf::get_range
raw_get_range(rb, start, end) ==
    LET r == utils_get_range(raw_len(rb), start, end)
        start_pos == start_with_offset(rb, r.start)
        end_pos == end_with_offset(rb, r.end)
        parts == get_parts(rb)
    IN
    IF ~r.some THEN RawView("None", <<>>, <<>>, rb)
    ELSE IF utils_is_get_single(start_len(rb), start_pos, end_pos)
    THEN RawView("Some", Slice(rb.mem, start_pos, start_pos + (r.end - r.start)), <<>>, rb)
    ELSE RawView("Some", Slice(parts[1], r.start, Len(parts[1])),
                 Slice(parts[2], 0, r.end - start_len(rb)), rb)

\* a slip in the slice start: the position is mapped before the gap is moved
get_slice_earlypos(rb, start, end) ==
    LET r == utils_get_range(raw_len(rb), start, end)
        m == move_gap_out_of(rb, r.start, r.end)
        start_pos == start_with_offset(rb, r.start)
    IN
    IF ~r.some THEN RawView("None", <<>>, <<>>, rb)
    ELSE IF m.res # "Ok" THEN RawView("Panic", <<>>, <<>>, rb)
    ELSE IF ~utils_is_get_single(start_len(m.rb), r.start, r.end)
    THEN RawView("Panic", <<>>, <<>>, rb)
    ELSE RawView("Some", Slice(m.rb.mem, start_pos, start_pos + (r.end - r.start)), <<>>, m.rb)

\* RawGapBuf::get_slice
get_slice(rb, start, end) ==
    LET r == utils_get_range(raw_len(rb), start, end)
        m == move_gap_out_of(rb, r.start, r.end)
        start_pos == start_with_offset(m.rb, r.start)
    IN
    IF ~r.some THEN RawView("None", <<>>, <<>>, rb)
    ELSE IF m.res # "Ok" THEN RawView("Panic", <<>>, <<>>, rb)
    ELSE IF ~utils_is_get_single(start_len(m.rb), r.start, r.end)
    THEN RawView("Panic", <<>>, <<>>, rb)
    ELSE RawView("Some", Slice(m.rb.mem, start_pos, start_pos + (r.end - r.start)), <<>>, m.rb)

\* RawGapBuf::to_slice
to_slice(rb) ==
    LET m == move_gap_out_of(rb, 0, raw_len(rb))
        parts == get_parts(m.rb)
    IN
    IF m.res # "Ok" THEN RawView("Panic", <<>>, <<>>, rb)
    ELSE IF parts[1] # <<>> THEN RawView("Some", parts[1], <<>>, m.rb)
    ELSE RawView("Some", parts[2], <<>>, m.rb)

\* a slip in the reallocation: the end slice is not moved behind the grown gap
grow_gap_at_endstays(rb, by, at) ==
    IF ~(raw_len(rb) >= at) THEN RawPanic(rb)
    ELSE IF total_len(rb) + by = 0 THEN RawOk(raw_new)
    ELSE
    LET sl == start_len(rb)
        g == gap_len(rb)
        el == end_len(rb)
        mem1 == rb.mem \o Uninit(by)
    IN raw_move_gap_start_to(RawBuf(mem1, sl, sl + g + by, el), at)

\* RawGapBuf::grow_gap_at: realloc (or alloc, from the buffer without allocation)
\* keeps the old slots and adds `by`; the end slice is copied to the new end
grow_gap_at(rb, by, at) ==
    IF ~(raw_len(rb) >= at) THEN RawPanic(rb)
    ELSE IF total_len(rb) + by = 0 THEN RawOk(raw_new)
    ELSE
    LET sl == start_len(rb)
        g == gap_len(rb)
        el == end_len(rb)
        mem1 == rb.mem \o Uninit(by)
        mem2 == CopyInto(mem1, sl + g + by, Slice(mem1, sl + g, sl + g + el))
    IN raw_move_gap_start_to(RawBuf(mem2, sl, sl + g + by, el), at)

\* RawGapBuf::grow_gap
grow_gap(rb, by) == grow_gap_at(rb, by, Len(get_parts(rb)[1]))

\* what the allocator does with a realloc call outside its contract
ReallocOutcomes == {"Completes", "Aborts"}

\* RawGapBuf::shrink_gap.  realloc is called on the dangling pointer of a buffer
\* without allocation (total_len = 0), and with a new size of 0 when the whole
\* allocation is gap (total_len = by > 0): both are outside the contract of
\* GlobalAlloc::realloc, and `ub` is what the allocator does then
shrink_gap(rb, by, ub) ==
    LET g == gap_len(rb)
        sl == start_len(rb)
        el == end_len(rb)
        total == sl + g + el
        mem1 == CopyInto(rb.mem, sl + g - by, Slice(rb.mem, rb.end_ptr, rb.end_ptr + el))
    IN
    IF ~(g >= by) THEN RawPanic(rb)
    ELSE IF (total = 0 \/ total - by = 0) /\ ub = "Aborts" THEN RawAbort(rb)
    ELSE RawOk(RawBuf(Slice(mem1, 0, total - by), sl, sl + g - by, el))

\* ---- Drain<T> (src/src/gap_buf/drain.rs) ----
\* The drained elements are numbered 1..n, element i lies at offset i - 1 of the
\* drained region.  ptr and len are the pointer (as an offset) and the length of the
\* slice Drain::ptr; yielded[i] counts how often element i was read out and handed
\* to the caller, dropped[i] how often its drop code ran; alive is FALSE once the
\* iterator itself was dropped.
DrainOf(n) ==
    [n |-> n, ptr |-> 0, len |-> n, yielded |-> [i \in 1..n |-> 0],
     dropped |-> [i \in 1..n |-> 0], alive |-> TRUE]

\* the elements of the slice ptr[from..to]
Span(d, from, to) == {i \in 1..d.n : d.ptr + from < i /\ i <= d.ptr + to}
\* as_slice
as_slice(d) == Span(d, 0, d.len)
\* ptr.add(k).read(): the element is moved out to the caller
ReadOut(d, k) == [d EXCEPT !.yielded[d.ptr + k + 1] = @ + 1]
\* drop_in_place of the slice ptr[from..to]
DropInPlace(d, from, to) ==
    [d EXCEPT !.dropped = [i \in 1..d.n |-> IF i \in Span(d, from, to) THEN @[i] + 1 ELSE @[i]]]

\* Option<T> returned by the iterator methods, and the iterator they leave
DrainRet(k, val, d) == [kind |-> k, val |-> val, d |-> d]

\* a slip in the shrinking: the first element is read, the slice loses its last one
drain_next_backshrink(d) ==
    IF d.len = 0 THEN DrainRet("None", 0, d)
    ELSE DrainRet("Some", d.ptr + 1, [ReadOut(d, 0) EXCEPT !.len = d.len - 1])

\* Iterator::next
drain_next(d) ==
    IF d.len = 0 THEN DrainRet("None", 0, d)
    ELSE DrainRet("Some", d.ptr + 1, [ReadOut(d, 0) EXCEPT !.ptr = d.ptr + 1, !.len = d.len - 1])

\* a slip in the shrinking: the last element is read, the slice loses its first one
next_back_frontshrink(d) ==
    IF d.len = 0 THEN DrainRet("None", 0, d)
    ELSE DrainRet("Some", d.ptr + d.len,
                  [ReadOut(d, d.len - 1) EXCEPT !.ptr = d.ptr + 1, !.len = d.len - 1])

\* DoubleEndedIterator::next_back
next_back(d) ==
    IF d.len = 0 THEN DrainRet("None", 0, d)
    ELSE DrainRet("Some", d.ptr + d.len, [ReadOut(d, d.len - 1) EXCEPT !.len = d.len - 1])

\* a slip in the exhausting: the elements are dropped but the slice keeps its length
nth_exhaust_keepslen(d, n) ==
    IF n >= d.len THEN DrainRet("None", 0, DropInPlace(d, 0, d.len))
    ELSE DrainRet("Some", d.ptr + n + 1,
                  [DropInPlace(ReadOut(d, n), 0, n) EXCEPT !.ptr = d.ptr + n + 1,
                                                          !.len = d.len - (n + 1)])

\* a slip in the readjusting: the element that was read stays in the slice
nth_keepsread(d, n) ==
    IF n >= d.len THEN DrainRet("None", 0, [DropInPlace(d, 0, d.len) EXCEPT !.len = 0])
    ELSE DrainRet("Some", d.ptr + n + 1,
                  [DropInPlace(ReadOut(d, n), 0, n) EXCEPT !.ptr = d.ptr + n,
                                                          !.len = d.len - n])

\* Iterator::nth
nth(d, n) ==
    IF n >= d.len THEN DrainRet("None", 0, [DropInPlace(d, 0, d.len) EXCEPT !.len = 0])
    ELSE DrainRet("Some", d.ptr + n + 1,
                  [DropInPlace(ReadOut(d, n), 0, n) EXCEPT !.ptr = d.ptr + n + 1,
                                                          !.len = d.len - (n + 1)])

\* Drop for Drain
drain_drop(d) == [DropInPlace(d, 0, d.len) EXCEPT !.alive = FALSE]

\* a slip in the resetting: the slice keeps its length after its elements were dropped
drain_count_keepslen(d) == DrainRet("Count", d.len, drain_drop(DropInPlace(d, 0, d.len)))

\* Iterator::count: takes the iterator by value, which is dropped when count returns
drain_count(d) ==
    DrainRet("Count", d.len, drain_drop([DropInPlace(d, 0, d.len) EXCEPT !.len = 0]))

\* Iterator::last: takes the iterator by value, which is dropped when last returns
drain_last(d) ==
    IF d.len = 0 THEN DrainRet("None", 0, drain_drop(d))
    ELSE DrainRet("Some", d.ptr + d.len, drain_drop([ReadOut(d, d.len - 1) EXCEPT !.len = 0]))

\* ---- the program as a state machine ----
VARIABLES
    buf,            \* GapText::buf
    gap,            \* GapText::gap
    base_gap_size,  \* GapText::base_gap_size
    ref,            \* the same edits applied to a plain string
    okSeq,          \* every edit so far was in bounds and on character boundaries of ref
    last,           \* the last call: its arguments, its outcome, the state it started in
    nops,           \* number of calls made
    raw,            \* a RawGapBuf: its allocation and its two slices
    rlast,          \* the last call on raw
    drain,          \* a Drain and what became of the elements it was made over
    dlast           \* the last call on drain

vars == <<buf, gap, base_gap_size, ref, okSeq, last, nops, raw, rlast, drain, dlast>>
textVars == <<buf, gap, base_gap_size, ref, okSeq, last>>
rawVars == <<raw, rlast>>
drainVars == <<drain, dlast>>

DrainCall(op, a, kind, val) == [op |-> op, a |-> a, res |-> kind, val |-> val, pre |-> drain]
DrainNoCall == [op |-> "new", a |-> 0, res |-> "None", val |-> 0, pre |-> DrainOf(0)]

RawCall(op, a, b, res, s1, s2) ==
    [op |-> op, a |-> a, b |-> b, res |-> res, s1 |-> s1, s2 |-> s2, pre |-> raw,
     copy |-> NoCopy]
RawNoCall == [op |-> "new", a |-> 0, b |-> 0, res |-> "Ok", s1 |-> <<>>, s2 |-> <<>>,
              pre |-> raw_new, copy |-> NoCopy]


Call(op, a, b, s, res, elen, etarget, s1, s2) ==
    [op |-> op, a |-> a, b |-> b, s |-> s, res |-> res, elen |-> elen,
     etarget |-> etarget, s1 |-> s1, s2 |-> s2, pre_buf |-> buf, pre_gap |-> gap,
     scratch |-> "No", again |-> <<>>]

NoCall(s) ==
    [op |-> "new", a |-> 0, b |-> 0, s |-> s, res |-> "Ok", elen |-> 0, etarget |-> 0,
     s1 |-> <<>>, s2 |-> <<>>, pre_buf |-> <<>>, pre_gap |-> Gap(0, 0),
     scratch |-> "No", again |-> <<>>]

\* the objects a behaviour does not use stay as they are constructed
NoText ==
    /\ buf = <<>> /\ gap = Gap(0, 0) /\ base_gap_size = 0
    /\ ref = <<>> /\ okSeq = TRUE /\ last = NoCall(<<>>)
NoRaw == raw = raw_new /\ rlast = RawNoCall
NoDrain == drain = DrainOf(0) /\ dlast = DrainNoCall

\* GapText::new(s) and GapText::with_gap_size(s, size)
InitNew ==
    /\ buf \in InitStrs
    /\ gap = Gap(0, 0)
    /\ base_gap_size \in GapSizes
    /\ ref = buf
    /\ okSeq = TRUE
    /\ nops = 0
    /\ last = NoCall(buf)
    /\ NoRaw /\ NoDrain

\* with_gap_size(s, size) followed by insert_gap(at), the way the crate sets a
\* buffer up; at is a character boundary of s
InitWithGap ==
    \E s \in InitStrs, size \in GapSizes \ {0}, at \in Positions :
        /\ at <= Len(s) /\ IsCharBoundary(s, at)
        /\ buf = insert_gap(s, Gap(0, 0), size, at).buf
        /\ gap = insert_gap(s, Gap(0, 0), size, at).gap
        /\ base_gap_size = size
        /\ ref = s
        /\ okSeq = TRUE
        /\ nops = 0
        /\ last = NoCall(s)
        /\ NoRaw /\ NoDrain

Init == InitNew \/ InitWithGap

\* a read that left the buffer as it was: the calls that can follow it are the calls
\* that can follow the state it started in, so a behaviour ends with it
ReadDone == last.op \in {"get", "get_str"} /\ buf = last.pre_buf

Active == last.res # "Panic" /\ ~ReadDone /\ nops < MaxOps

\* the state a mutating call leaves: nothing is observed after a panic
Leave(r) ==
    /\ buf' = IF r.res = "Panic" THEN buf ELSE r.buf
    /\ gap' = IF r.res = "Panic" THEN gap ELSE r.gap
    /\ nops' = nops + 1
    /\ UNCHANGED <<base_gap_size, rawVars, drainVars>>

RefInsert(t, at, s) == Slice(t, 0, at) \o s \o Slice(t, at, Len(t))
RefReplace(t, start, end, s) == Slice(t, 0, start) \o s \o Slice(t, end, Len(t))
ValidAt(t, at) == at <= Len(t) /\ IsCharBoundary(t, at)
ValidRange(t, start, end) ==
    start <= end /\ end <= Len(t) /\ IsCharBoundary(t, start) /\ IsCharBoundary(t, end)

Insert ==
    \E at \in Positions, s \in InsStrs :
        LET r == insert(buf, gap, base_gap_size, at, s) IN
        /\ Active
        /\ Len(Text(buf, gap)) + Len(s) <= MaxLen
        /\ Leave(r)
        /\ last' = Call("insert", at, 0, s, r.res, r.elen, r.etarget, <<>>, <<>>)
        /\ ref' = IF ValidAt(ref, at) THEN RefInsert(ref, at, s) ELSE ref
        /\ okSeq' = (okSeq /\ ValidAt(ref, at))

DeleteIn(ranges) ==
    \E rg \in ranges :
        LET r == delete(buf, gap, rg[1], rg[2]) IN
        /\ Active
        /\ Leave(r)
        /\ last' = Call("delete", rg[1], rg[2], <<>>, r.res, r.elen, r.etarget, <<>>, <<>>)
        /\ ref' = IF ValidRange(ref, rg[1], rg[2]) THEN RefReplace(ref, rg[1], rg[2], <<>>)
                  ELSE ref
        /\ okSeq' = (okSeq /\ ValidRange(ref, rg[1], rg[2]))

Delete == DeleteIn(OrderedRanges)

ReplaceIn(ranges) ==
    \E rg \in ranges, s \in InsStrs :
        LET r == replace(buf, gap, base_gap_size, rg[1], rg[2], s) IN
        /\ Active
        /\ Len(Text(buf, gap)) + Len(s) <= MaxLen
        /\ Leave(r)
        /\ last' = Call("replace", rg[1], rg[2], s, r.res, r.elen, r.etarget, <<>>, <<>>)
        /\ ref' = IF ValidRange(ref, rg[1], rg[2]) THEN RefReplace(ref, rg[1], rg[2], s)
                  ELSE ref
        /\ okSeq' = (okSeq /\ ValidRange(ref, rg[1], rg[2]))

Replace == ReplaceIn(OrderedRanges)

\* callers outside the edits move the gap to a character boundary or past the end
MoveGapStartTo ==
    \E to \in Positions :
        LET r == move_gap_start_to(buf, gap, to) IN
        /\ Active
        /\ to > Len(Text(buf, gap)) \/ IsCharBoundary(Text(buf, gap), to)
        /\ Leave(r)
        /\ last' = Call("move_gap_start_to", to, 0, <<>>, r.res, r.elen, r.etarget,
                        <<>>, <<>>)
        /\ UNCHANGED <<ref, okSeq>>

\* what a read returned: the kind of the answer and its bytes
Answer(kind, s) == <<kind, s>>

\* get(r), and what the same get(r) returns when called again right after
Get ==
    \E rg \in AllRanges :
        LET v == get(buf, gap, RangeOf(rg[1], rg[2]))
            w == get(buf, gap, RangeOf(rg[1], rg[2]))
        IN
        /\ Active
        /\ nops' = nops + 1
        /\ last' = [Call("get", rg[1], rg[2], <<>>, v.kind, 0, 0, v.s1, v.s2)
                      EXCEPT !.again = Answer(w.kind, w.s1 \o w.s2)]
        /\ UNCHANGED <<buf, gap, base_gap_size, ref, okSeq, rawVars, drainVars>>

\* get_str(r) with any spare capacity, and what the same get_str(r) returns when
\* called again right after, on the buffer and the capacity the first call left
GetStr ==
    \E rg \in AllRanges, spare \in SpareLens :
        LET v == get_str(buf, gap, spare, RangeOf(rg[1], rg[2]))
            spare2 == IF v.scratch = "Reserved" THEN Max(spare, SaturatingSub(rg[2], rg[1]))
                      ELSE spare
            w == get_str(v.buf, v.gap, spare2, RangeOf(rg[1], rg[2]))
        IN
        /\ Active
        /\ buf' = IF v.kind = "Panic" THEN buf ELSE v.buf
        /\ gap' = IF v.kind = "Panic" THEN gap ELSE v.gap
        /\ nops' = nops + 1
        /\ last' = [Call("get_str", rg[1], rg[2], <<>>, v.kind, 0, 0, v.s, <<>>)
                      EXCEPT !.scratch = v.scratch, !.again = Answer(w.kind, w.s)]
        /\ UNCHANGED <<base_gap_size, ref, okSeq, rawVars, drainVars>>

\* get(..)
GetFull ==
    LET v == get(buf, gap, RangeFull) IN
    /\ Active
    /\ nops' = nops + 1
    /\ last' = Call("get", 0, len(buf, gap), <<>>, v.kind, 0, 0, v.s1, v.s2)
    /\ UNCHANGED <<buf, gap, base_gap_size, ref, okSeq, rawVars, drainVars>>

\* every method of GapText
Next == Insert \/ Delete \/ Replace \/ MoveGapStartTo \/ Get \/ GetFull \/ GetStr
Spec == Init /\ [][Next]_vars

\* inserting into buffers that earlier inserts, deletes and gap moves produced
NextInsert == Insert \/ Delete \/ MoveGapStartTo
SpecInsert == Init /\ [][NextInsert]_vars

\* reading from buffers that earlier deletes and gap moves produced
NextGet == Get \/ GetFull \/ Delete \/ MoveGapStartTo
SpecGet == Init /\ [][NextGet]_vars

\* reading one contiguous string from buffers that earlier gap moves and earlier
\* get_str calls (which write into the gap) produced
NextGetStr == GetStr \/ Get \/ MoveGapStartTo
SpecGetStr == Init /\ [][NextGetStr]_vars

\* GapText::new(s) for texts of up to MaxInitLen + 2 bytes
LongStrs == Utf8Strs({CharA, CharE}, MaxInitLen + 2)
InitLong ==
    /\ buf \in LongStrs
    /\ gap = Gap(0, 0)
    /\ base_gap_size \in GapSizes
    /\ ref = buf
    /\ okSeq = TRUE
    /\ nops = 0
    /\ last = NoCall(buf)
    /\ NoRaw /\ NoDrain

\* inserting after a delete or an insert put bytes of a longer text into the gap
NextStale == Insert \/ Delete
SpecStale == InitLong /\ [][NextStale]_vars

\* ---- RawGapBuf as a state machine ----
\* the elements a..b in order
Iota(a, b) == [i \in 1..(b - a + 1) |-> a + i - 1]
RawPositions == 0..(MaxRawLen + 1)
RawRanges == RawPositions \X RawPositions

\* new_with(start, gap_size, end) over the elements 1..n split anywhere; n = 0 with
\* gap_size = 0 is new()
InitRaw ==
    \E n \in 0..MaxRawLen, g \in 0..MaxRawGap :
        \E k \in 0..n :
            /\ raw = new_with(Iota(1, k), g, Iota(k + 1, n))
            /\ rlast = RawNoCall
            /\ nops = 0
            /\ NoText /\ NoDrain

RawActive == rlast.res \notin {"Panic", "Abort"} /\ nops < MaxOps

\* the state a call on raw leaves: nothing is observed after a panic or an abort
RawLeave(r) ==
    /\ raw' = IF r.res \in {"Panic", "Abort"} THEN raw ELSE r.rb
    /\ nops' = nops + 1
    /\ UNCHANGED <<textVars, drainVars>>

RawMoveGapStartTo ==
    \E to \in RawPositions :
        LET r == raw_move_gap_start_to(raw, to) IN
        /\ RawActive
        /\ RawLeave(r)
        /\ rlast' = [RawCall("move_gap_start_to", to, 0, r.res, <<>>, <<>>)
                       EXCEPT !.copy = move_copy(raw, to)]

RawMoveGapOutOf ==
    \E rg \in RawRanges :
        LET r == move_gap_out_of(raw, rg[1], rg[2]) IN
        /\ RawActive
        /\ RawLeave(r)
        /\ rlast' = RawCall("move_gap_out_of", rg[1], rg[2], r.res, <<>>, <<>>)

\* a reading method answered v
RawRead(op, a, b, v) ==
    /\ RawActive
    /\ RawLeave([res |-> IF v.kind = "Panic" THEN "Panic" ELSE "Ok", rb |-> v.rb])
    /\ rlast' = RawCall(op, a, b, v.kind, v.s1, v.s2)

RawGet == \E i \in RawPositions : RawRead("get", i, 0, raw_get(raw, i))

RawGetRange ==
    \E rg \in RawRanges : RawRead("get_range", rg[1], rg[2], raw_get_range(raw, rg[1], rg[2]))

RawGetSlice ==
    \E rg \in RawRanges : RawRead("get_slice", rg[1], rg[2], get_slice(raw, rg[1], rg[2]))

RawToSlice == RawRead("to_slice", 0, raw_len(raw), to_slice(raw))

RawGrowGapAt ==
    \E by \in 0..MaxGrow, at \in RawPositions :
        LET r == grow_gap_at(raw, by, at) IN
        /\ RawActive
        /\ RawLeave(r)
        /\ rlast' = RawCall("grow_gap_at", by, at, r.res, <<>>, <<>>)

RawGrowGap ==
    \E by \in 0..MaxGrow :
        LET r == grow_gap(raw, by) IN
        /\ RawActive
        /\ RawLeave(r)
        /\ rlast' = RawCall("grow_gap", by, 0, r.res, <<>>, <<>>)

RawShrinkGap ==
    \E by \in 0..(MaxRawGap + 1), ub \in ReallocOutcomes :
        LET r == shrink_gap(raw, by, ub) IN
        /\ RawActive
        /\ RawLeave(r)
        /\ rlast' = RawCall("shrink_gap", by, 0, r.res, <<>>, <<>>)

\* every method of RawGapBuf
NextRaw ==
    \/ RawMoveGapStartTo \/ RawMoveGapOutOf \/ RawGet \/ RawGetRange \/ RawGetSlice
    \/ RawToSlice \/ RawGrowGapAt \/ RawGrowGap \/ RawShrinkGap
SpecRaw == InitRaw /\ [][NextRaw]_vars

\* moving the gap of buffers that earlier moves, growths and shrinks produced
NextRawMove == RawMoveGapStartTo \/ RawGrowGap \/ RawShrinkGap
SpecRawMove == InitRaw /\ [][NextRawMove]_vars

\* reading from buffers whose gap earlier moves left anywhere
NextRawGet == RawGet \/ RawGetRange \/ RawMoveGapStartTo
SpecRawGet == InitRaw /\ [][NextRawGet]_vars

NextRawSlice == RawGetSlice \/ RawToSlice \/ RawMoveGapStartTo
SpecRawSlice == InitRaw /\ [][NextRawSlice]_vars

NextRawGrow == RawGrowGapAt \/ RawGrowGap \/ RawMoveGapStartTo
SpecRawGrow == InitRaw /\ [][NextRawGrow]_vars

\* ---- RawGapBuf over a zero-sized element type ----
\* Both slices hang off the same dangling pointer and nothing is allocated: the
\* buffer is the two slice lengths (mem is empty, end_ptr is 0).
\* new_with_slice for a zero-sized type
zst_new_with_slice(sl, el) == RawBuf(<<>>, sl, 0, el)

\* shift_gap for a zero-sized type: returns at once
zst_shift_gap(rb, by) == rb

\* move_gap_start_to for a zero-sized type: the assertion, the early return, then
\* shift_gap(start_len - to)
zst_move_gap_start_to(rb, to) ==
    IF ~(to <= raw_len(rb)) THEN RawPanic(rb)
    ELSE IF start_len(rb) = to THEN RawOk(rb)
    ELSE RawOk(zst_shift_gap(rb, start_len(rb) - to))

\* move_gap_out_of for a zero-sized type; total_len() is len()
zst_move_gap_out_of(rb, start, end) ==
    IF ~(raw_len(rb) >= end /\ start <= end) THEN RawPanic(rb)
    ELSE IF start > start_len(rb) \/ end <= start_len(rb) THEN RawOk(rb)
    ELSE LET to_right_copy == start_len(rb) - start
             to_left_copy == end - start_len(rb)
             move_to == IF to_right_copy > to_left_copy THEN end ELSE start
         IN zst_move_gap_start_to(rb, move_to)

\* grow_gap_at for a zero-sized type: the two slices are made anew around `at`
zst_grow_gap_at(rb, by, at) ==
    IF ~(raw_len(rb) >= at) THEN RawPanic(rb)
    ELSE RawOk(zst_new_with_slice(at, raw_len(rb) - at))

InitZst ==
    \E n \in 0..MaxRawLen :
        \E k \in 0..n :
            /\ raw = zst_new_with_slice(k, n - k)
            /\ rlast = [RawNoCall EXCEPT !.pre = raw]
            /\ nops = 0
            /\ NoText /\ NoDrain

ZstMoveGapStartTo ==
    \E to \in RawPositions :
        LET r == zst_move_gap_start_to(raw, to) IN
        /\ RawActive
        /\ RawLeave(r)
        /\ rlast' = RawCall("move_gap_start_to", to, 0, r.res, <<>>, <<>>)

ZstMoveGapOutOf ==
    \E rg \in RawRanges :
        LET r == zst_move_gap_out_of(raw, rg[1], rg[2]) IN
        /\ RawActive
        /\ RawLeave(r)
        /\ rlast' = RawCall("move_gap_out_of", rg[1], rg[2], r.res, <<>>, <<>>)

ZstGrowGapAt ==
    \E by \in 0..MaxGrow, at \in RawPositions :
        LET r == zst_grow_gap_at(raw, by, at) IN
        /\ RawActive
        /\ RawLeave(r)
        /\ rlast' = RawCall("grow_gap_at", by, at, r.res, <<>>, <<>>)

NextZst == ZstMoveGapStartTo \/ ZstMoveGapOutOf \/ ZstGrowGapAt
SpecZst == InitZst /\ [][NextZst]_vars

\* moving the gap out of a range, from wherever earlier moves left it
NextRawOut == RawMoveGapOutOf \/ RawMoveGapStartTo
SpecRawOut == InitRaw /\ [][NextRawOut]_vars

\* the calls that move the slices or change the allocation
NextRawLayout ==
    \/ RawMoveGapStartTo \/ RawMoveGapOutOf \/ RawGetSlice \/ RawGrowGapAt
    \/ RawShrinkGap
SpecRawLayout == InitRaw /\ [][NextRawLayout]_vars

\* ---- Drain as a state machine ----
\* a Drain over 0..MaxDrain removed elements
InitDrain ==
    /\ drain \in {DrainOf(n) : n \in 0..MaxDrain}
    /\ dlast = DrainNoCall
    /\ nops = 0
    /\ NoText /\ NoRaw

\* a call on the iterator, which is still owned by the caller
DrainStep(op, a, r) ==
    /\ drain.alive
    /\ drain' = r.d
    /\ dlast' = DrainCall(op, a, r.kind, r.val)
    /\ UNCHANGED <<textVars, rawVars, nops>>

DrainNext == DrainStep("next", 0, drain_next(drain))
DrainNextBack == DrainStep("next_back", 0, next_back(drain))
DrainNth == \E n \in 0..(MaxDrain + 1) : DrainStep("nth", n, nth(drain, n))
\* the caller lets go of the iterator
DrainDrop == DrainStep("drop", 0, DrainRet("None", 0, drain_drop(drain)))

NextDrain == DrainNext \/ DrainNextBack \/ DrainNth \/ DrainDrop
SpecDrain == InitDrain /\ [][NextDrain]_vars

\* the two calls that consume the iterator
DrainCount == DrainStep("count", 0, drain_count(drain))
DrainLast == DrainStep("last", 0, drain_last(drain))

\* pulling from both ends, then consuming what is left
NextDrainConsume == DrainNext \/ DrainNextBack \/ DrainNth \/ DrainCount \/ DrainLast
SpecDrainConsume == InitDrain /\ [][NextDrainConsume]_vars


\* ---- what the claims speak about ----
CurText == Text(buf, gap)
CurLen == len(buf, gap)
PreText == Text(last.pre_buf, last.pre_gap)
PreLen == len(last.pre_buf, last.pre_gap)
PreGapLen == RangeLen(last.pre_gap)
\* t[i..j], or a value no byte string equals when i..j is not a range of t
TextSlice(t, i, j) == IF i <= j /\ j <= Len(t) THEN Slice(t, i, j) ELSE <<-1>>
IsSome(k) == k \in {"Single", "Spaced"}

\* C1: as long as every insert, delete and replace so far was in bounds and on
\* character boundaries, the call did not panic, the text outside the gap (what
\* get(..) reads) equals the reference string the same edits produce, and len()
\* is the reference string's byte length.
C1_RoundTrip ==
    okSeq => (last.res # "Panic" /\ CurText = ref /\ CurLen = Len(ref))

\* C2: an insert(at, s) that returns Ok turns the text T into T[..at] + s + T[at..]
\* and increases len() by len(s), whatever the gap was before the call.
C2_InsertOk ==
    (last.op = "insert" /\ last.res = "Ok") =>
        /\ CurText = TextSlice(PreText, 0, last.a) \o last.s
                        \o TextSlice(PreText, last.a, Len(PreText))
        /\ PreLen >= 0
        /\ CurLen = PreLen + Len(last.s)

\* an insert inside the text that overflowed a non-empty gap which was elsewhere
C2_Witness ==
    /\ last.op = "insert" /\ last.res = "Ok"
    /\ 0 < PreGapLen /\ PreGapLen < Len(last.s)
    /\ last.pre_gap.start # last.a
    /\ 0 < last.a /\ last.a < Len(PreText)

\* C3: delete(start..end) with start <= end <= len() returns Ok, turns the text T
\* into T[..start] + T[end..], keeps the buffer length, leaves the gap starting at
\* start and grows the gap by exactly end - start.
C3_DeleteOk ==
    (last.op = "delete" /\ last.a <= last.b /\ last.b <= PreLen) =>
        /\ last.res = "Ok"
        /\ CurText = TextSlice(PreText, 0, last.a) \o TextSlice(PreText, last.b, Len(PreText))
        /\ Len(buf) = Len(last.pre_buf)
        /\ gap.start = last.a
        /\ RangeLen(gap) = PreGapLen + (last.b - last.a)

\* C4: replace(start..end, s) with start <= end <= len() returns Ok and turns the
\* text T into T[..start] + s + T[end..], for s shorter than, as long as, or longer
\* than the range.
C4_ReplaceOk ==
    (last.op = "replace" /\ last.a <= last.b /\ last.b <= PreLen) =>
        /\ last.res = "Ok"
        /\ CurText = TextSlice(PreText, 0, last.a) \o last.s
                        \o TextSlice(PreText, last.b, Len(PreText))

\* C5: insert(at, s) with at > len() returns Err(OutOfBounds { len: len(), target: at })
\* and leaves the text and len() unchanged.
C5_InsertOutOfBounds ==
    (last.op = "insert" /\ PreLen >= 0 /\ last.a > PreLen) =>
        /\ last.res = "OutOfBounds"
        /\ last.elen = PreLen
        /\ last.etarget = last.a
        /\ CurText = PreText
        /\ CurLen = PreLen

\* C6: insert(at, s) with at inside a multi-byte character of the text returns
\* Err(NotCharBoundry) and leaves the text and len() unchanged, whatever the gap
\* holds and wherever it is.
C6_InsertNotCharBoundry ==
    (last.op = "insert" /\ last.a < Len(PreText) /\ ~IsCharBoundary(PreText, last.a)) =>
        /\ last.res = "NotCharBoundry"
        /\ CurText = PreText
        /\ CurLen = PreLen

\* C7: delete(range) and replace(range, s) with range.start or range.end inside a
\* multi-byte character return Err(NotCharBoundry) and leave the text and len()
\* unchanged.
C7_RangeNotCharBoundry ==
    (/\ last.op \in {"delete", "replace"}
     /\ last.a <= last.b /\ last.b <= Len(PreText)
     /\ ~IsCharBoundary(PreText, last.a) \/ ~IsCharBoundary(PreText, last.b)) =>
        /\ last.res = "NotCharBoundry"
        /\ CurText = PreText
        /\ CurLen = PreLen

\* C8: get(start..end) returns None whenever start > end, end > len(), or start or
\* end is not a character boundary of the text (the end check never decided by a
\* byte inside the gap).
C8_GetNone ==
    (/\ last.op = "get"
     /\ PreLen >= 0
     /\ \/ last.a > last.b
        \/ last.b > PreLen
        \/ ~IsCharBoundary(PreText, last.a)
        \/ ~IsCharBoundary(PreText, last.b)) =>
        last.res = "None"

\* C9: for start <= end <= len() with both ends on character boundaries,
\* get(start..end) returns Some view, without panicking, whose pieces concatenated
\* are bytes start..end of the text.
C9_GetSome ==
    (/\ last.op = "get"
     /\ last.a <= last.b /\ last.b <= PreLen
     /\ IsCharBoundary(PreText, last.a) /\ IsCharBoundary(PreText, last.b)) =>
        /\ IsSome(last.res)
        /\ last.s1 \o last.s2 = TextSlice(PreText, last.a, last.b)

\* C10: a get(start..end) that returns a view returns Single whenever the gap start
\* is not strictly between start and end, and Spaced only when
\* start < gap.start < end, with both pieces non-empty and equal to
\* text[start..gap.start] and text[gap.start..end].
C10_SingleOrSpaced ==
    (last.op = "get" /\ IsSome(last.res)) =>
        /\ (last.b <= last.pre_gap.start \/ last.pre_gap.start <= last.a)
              => last.res = "Single"
        /\ last.res = "Spaced" =>
            /\ last.a < last.pre_gap.start /\ last.pre_gap.start < last.b
            /\ last.s1 # <<>> /\ last.s2 # <<>>
            /\ last.s1 = TextSlice(PreText, last.a, last.pre_gap.start)
            /\ last.s2 = TextSlice(PreText, last.pre_gap.start, last.b)

\* a read across a non-empty gap, answered in two pieces
C10_Witness ==
    /\ last.op = "get" /\ last.res = "Spaced"
    /\ PreGapLen > 0
    /\ last.s1 # <<>> /\ last.s2 # <<>>

\* C11: a get or get_str that returns leaves the gap range, len(), the buffer length
\* and every byte outside the gap as they were (get_str writes inside the gap only),
\* and the same call made again right after returns the same content.
C11_ReadsKeepText ==
    (last.op \in {"get", "get_str"} /\ last.res # "Panic") =>
        /\ gap = last.pre_gap
        /\ CurLen = PreLen
        /\ Len(buf) = Len(last.pre_buf)
        /\ \A i \in 1..Len(buf) :
              (i <= gap.start \/ i > gap.end) => buf[i] = last.pre_buf[i]
        /\ CurText = PreText
        /\ last.again = Answer(last.res, last.s1 \o last.s2)

\* a get_str across the gap that assembled its string inside the gap
C11_Witness ==
    /\ last.op = "get_str" /\ last.res = "Str"
    /\ last.scratch = "Gap"
    /\ buf # last.pre_buf

\* C12: get_str(start..end) returns None exactly when get(start..end) returns None,
\* and when get returns a view it returns the concatenation of the view's pieces,
\* whichever scratch area is used.
C12_GetStrIsGet ==
    (last.op = "get_str") =>
        LET v == get(last.pre_buf, last.pre_gap, RangeOf(last.a, last.b)) IN
        /\ (last.res = "None") <=> (v.kind = "None")
        /\ IsSome(v.kind) => (last.res = "Str" /\ last.s1 = v.s1 \o v.s2)

\* a get_str across the gap assembled in freshly reserved capacity
C12_Witness ==
    /\ last.op = "get_str" /\ last.res = "Str"
    /\ last.scratch = "Reserved"
    /\ PreGapLen > 0

\* the logical sequence of a RawGapBuf: prefix ++ suffix
RawSeq(rb) == get_parts(rb)[1] \o get_parts(rb)[2]
RawPre == rlast.pre

\* C13: move_gap_start_to(to) with to <= len() returns, leaves start_len() = to, keeps
\* gap_len() and len(), and keeps prefix ++ suffix, whatever the distance and the
\* direction of the move and whatever the gap length.
C13_RawMoveGap ==
    (rlast.op = "move_gap_start_to" /\ rlast.a <= raw_len(RawPre)) =>
        /\ rlast.res = "Ok"
        /\ start_len(raw) = rlast.a
        /\ gap_len(raw) = gap_len(RawPre)
        /\ raw_len(raw) = raw_len(RawPre)
        /\ RawSeq(raw) = RawSeq(RawPre)

\* a move to the right by more than the length of a non-empty gap
C13_Witness ==
    /\ rlast.op = "move_gap_start_to" /\ rlast.res = "Ok"
    /\ gap_len(RawPre) > 0
    /\ rlast.a - start_len(RawPre) > gap_len(RawPre)

\* C14: get(i) returns element i of prefix ++ suffix for i < len() and None for
\* i >= len(); start_with_offset(i) is i below start_len and i + gap_len otherwise,
\* end_with_offset(e) is e up to start_len and e + gap_len otherwise.
C14_RawIndex ==
    /\ rlast.op = "get" =>
          IF rlast.a < raw_len(RawPre)
          THEN rlast.res = "Some" /\ rlast.s1 = <<RawSeq(RawPre)[rlast.a + 1]>>
          ELSE rlast.res = "None"
    /\ \A i \in RawPositions :
          /\ start_with_offset(raw, i) = IF i < start_len(raw) THEN i ELSE i + gap_len(raw)
          /\ end_with_offset(raw, i) = IF i <= start_len(raw) THEN i ELSE i + gap_len(raw)
          /\ i < raw_len(raw) => raw.mem[start_with_offset(raw, i) + 1] = RawSeq(raw)[i + 1]

\* an element behind a non-empty gap is read
C14_Witness ==
    /\ rlast.op = "get" /\ rlast.res = "Some"
    /\ gap_len(RawPre) > 0
    /\ rlast.a >= start_len(RawPre)
    /\ start_len(RawPre) > 0

\* C15: get_range(a..b) returns None when a > b or b > len(); otherwise two slices
\* whose concatenation is elements a..b of the sequence, the second one empty unless
\* a < start_len < b; the buffer stays as it was.
C15_RawGetRange ==
    (rlast.op = "get_range") =>
        /\ raw = RawPre
        /\ IF rlast.a > rlast.b \/ rlast.b > raw_len(RawPre) THEN rlast.res = "None"
           ELSE /\ rlast.res = "Some"
                /\ rlast.s1 \o rlast.s2 = Slice(RawSeq(RawPre), rlast.a, rlast.b)
                /\ ~(rlast.a < start_len(RawPre) /\ start_len(RawPre) < rlast.b)
                      => rlast.s2 = <<>>

\* a range across a non-empty gap, answered in two slices
C15_Witness ==
    /\ rlast.op = "get_range" /\ rlast.res = "Some"
    /\ gap_len(RawPre) > 0
    /\ rlast.s1 # <<>> /\ rlast.s2 # <<>>
    /\ rlast.b < raw_len(RawPre)

C17_RawGrowGap ==
    /\ (rlast.op = "grow_gap_at" /\ rlast.b <= raw_len(RawPre)) =>
          /\ rlast.res = "Ok"
          /\ gap_len(raw) = gap_len(RawPre) + rlast.a
          /\ start_len(raw) = rlast.b
          /\ raw_len(raw) = raw_len(RawPre)
          /\ RawSeq(raw) = RawSeq(RawPre)
    /\ rlast.op = "grow_gap" =>
          /\ rlast.res = "Ok"
          /\ gap_len(raw) = gap_len(RawPre) + rlast.a
          /\ get_parts(raw) = get_parts(RawPre)

\* a growth of a non-empty gap that also moves it, with elements on both sides
C17_Witness ==
    /\ rlast.op = "grow_gap_at" /\ rlast.res = "Ok"
    /\ rlast.a > 0 /\ gap_len(RawPre) > 0
    /\ end_len(RawPre) > 0 /\ end_len(raw) > 0
    /\ rlast.b # start_len(RawPre)

\* C18: shrink_gap(by) with by <= gap_len() returns, takes exactly `by` from
\* gap_len() and keeps the prefix and the suffix; with by > gap_len() it panics and
\* the buffer stays as it was.
C18_RawShrinkGap ==
    (rlast.op = "shrink_gap") =>
        IF rlast.a <= gap_len(RawPre)
        THEN /\ rlast.res = "Ok"
             /\ gap_len(raw) = gap_len(RawPre) - rlast.a
             /\ get_parts(raw) = get_parts(RawPre)
        ELSE rlast.res = "Panic" /\ raw = RawPre

DrainPre == dlast.pre

\* C19: whatever next(), next_back() and nth(k) calls were made, no element is both
\* yielded and destroyed or yielded or destroyed twice, and once the iterator is
\* dropped every element was yielded exactly once or destroyed exactly once.
C19_DrainComplete ==
    \A i \in 1..drain.n :
        /\ drain.yielded[i] + drain.dropped[i] <= 1
        /\ ~drain.alive => drain.yielded[i] + drain.dropped[i] = 1

\* an iterator dropped after two of its elements were pulled, with others left
C19_Witness ==
    /\ ~drain.alive
    /\ Cardinality({i \in 1..drain.n : drain.yielded[i] = 1}) = 2
    /\ Cardinality({i \in 1..drain.n : drain.dropped[i] = 1}) >= 2
    /\ DrainPre.len >= 2

\* C20: nth(n) with n >= the remaining length destroys every remaining element,
\* returns None and leaves the span empty; otherwise it destroys the first n
\* remaining elements without yielding them, returns the element at index n and
\* leaves exactly the elements behind it; dropping the iterator then destroys those.
C20_DrainNth ==
    /\ dlast.op = "nth" =>
          IF dlast.a >= DrainPre.len
          THEN /\ dlast.res = "None"
               /\ as_slice(drain) = {}
               /\ drain.yielded = DrainPre.yielded
               /\ \A i \in 1..drain.n :
                     drain.dropped[i] = DrainPre.dropped[i]
                                        + (IF i \in as_slice(DrainPre) THEN 1 ELSE 0)
          ELSE /\ dlast.res = "Some"
               /\ dlast.val = DrainPre.ptr + dlast.a + 1
               /\ as_slice(drain) = {i \in as_slice(DrainPre) : i > dlast.val}
               /\ \A i \in 1..drain.n :
                     /\ drain.yielded[i] = DrainPre.yielded[i] + (IF i = dlast.val THEN 1 ELSE 0)
                     /\ drain.dropped[i] = DrainPre.dropped[i]
                           + (IF i \in as_slice(DrainPre) /\ i < dlast.val THEN 1 ELSE 0)
    /\ (dlast.op = "drop" /\ DrainPre.n = drain.n) =>
          \A i \in 1..drain.n :
              drain.dropped[i] = DrainPre.dropped[i]
                                 + (IF i \in as_slice(DrainPre) THEN 1 ELSE 0)

\* nth(1) on a drain of four elements: one destroyed, one returned, two left
C20_Witness ==
    /\ dlast.op = "nth" /\ dlast.res = "Some"
    /\ dlast.a = 1 /\ DrainPre.len = 4
    /\ Cardinality(as_slice(drain)) = 2

\* C21: last() on an empty drain returns None; on m >= 1 remaining elements it
\* returns the final one and destroys each of the other m - 1 exactly once.
C21_DrainLast ==
    dlast.op = "last" =>
        IF DrainPre.len = 0
        THEN dlast.res = "None" /\ drain.yielded = DrainPre.yielded
        ELSE /\ dlast.res = "Some"
             /\ dlast.val = DrainPre.ptr + DrainPre.len
             /\ \A i \in 1..drain.n :
                   /\ drain.yielded[i] = DrainPre.yielded[i] + (IF i = dlast.val THEN 1 ELSE 0)
                   /\ drain.dropped[i] = DrainPre.dropped[i]
                         + (IF i \in as_slice(DrainPre) /\ i # dlast.val THEN 1 ELSE 0)

\* C22: count() returns the number of remaining elements and destroys each of them
\* exactly once, the drop of the consumed iterator included.
C22_DrainCount ==
    dlast.op = "count" =>
        /\ dlast.res = "Count"
        /\ dlast.val = DrainPre.len
        /\ ~drain.alive
        /\ drain.yielded = DrainPre.yielded
        /\ \A i \in 1..drain.n :
              /\ drain.dropped[i] = DrainPre.dropped[i]
                                     + (IF i \in as_slice(DrainPre) THEN 1 ELSE 0)
              /\ drain.yielded[i] + drain.dropped[i] = 1

\* count() on three elements left of four after one was pulled
C22_Witness ==
    /\ dlast.op = "count" /\ dlast.val = 3
    /\ DrainPre.n = 4
    /\ Cardinality({i \in 1..drain.n : drain.dropped[i] = 1}) = 3
    /\ Cardinality({i \in 1..drain.n : drain.yielded[i] = 1}) = 1

\* C23: next() returns the first remaining element and next_back() the last one,
\* each leaving exactly the others, both return None on an empty span and leave it
\* empty, and no element is yielded twice.
C23_DrainEnds ==
    /\ \A i \in 1..drain.n : drain.yielded[i] <= 1
    /\ dlast.op \in {"next", "next_back"} =>
          IF as_slice(DrainPre) = {}
          THEN dlast.res = "None" /\ as_slice(drain) = {} /\ drain.yielded = DrainPre.yielded
          ELSE /\ dlast.res = "Some"
               /\ dlast.val \in as_slice(DrainPre)
               /\ \A i \in as_slice(DrainPre) :
                     IF dlast.op = "next" THEN dlast.val <= i ELSE dlast.val >= i
               /\ as_slice(drain) = as_slice(DrainPre) \ {dlast.val}
               /\ Cardinality(as_slice(drain)) = Cardinality(as_slice(DrainPre)) - 1
               /\ drain.yielded = [DrainPre.yielded EXCEPT ![dlast.val] = @ + 1]
               /\ drain.dropped = DrainPre.dropped

\* next() after a next_back() and an earlier next(): the second element of four
C23_Witness ==
    /\ dlast.op = "next" /\ dlast.val = 2
    /\ drain.n = 4
    /\ drain.yielded[1] = 1 /\ drain.yielded[4] = 1
    /\ as_slice(drain) = {3}

\* the gap lies inside the buffer
GapInBuf(b, g) == g.start <= g.end /\ g.end <= Len(b)

\* C24: insert(at, s) with at <= len() on a character boundary of the text returns
\* Ok: appending, inserting into an empty text, with an empty gap, with the gap at
\* the end of the buffer.
C24_InsertAccepts ==
    (/\ last.op = "insert"
     /\ GapInBuf(last.pre_buf, last.pre_gap)
     /\ last.a <= PreLen /\ IsCharBoundary(PreText, last.a)) =>
        last.res = "Ok"

\* C25: insert(at, s) with at on a character boundary of the text never returns
\* Err(NotCharBoundry), whatever bytes earlier calls left inside the gap; stated
\* here for the histories in which every earlier call was in bounds and on
\* character boundaries, so that the text is the reference string.
C25_BoundaryFromText ==
    (/\ last.op = "insert"
     /\ okSeq /\ PreText = ref
     /\ GapInBuf(last.pre_buf, last.pre_gap)
     /\ last.a <= PreLen /\ IsCharBoundary(PreText, last.a)) =>
        last.res # "NotCharBoundry"

\* C26: move_gap_start_to(to) with a non-empty gap and to <= len() returns Ok with
\* the gap starting at to, as long as before, the text before to in front of the
\* gap and the text from to on behind it.
C26_MoveGapOk ==
    (/\ last.op = "move_gap_start_to"
     /\ GapInBuf(last.pre_buf, last.pre_gap) /\ PreGapLen > 0
     /\ last.a <= PreLen) =>
        /\ last.res = "Ok"
        /\ gap.start = last.a
        /\ RangeLen(gap) = PreGapLen
        /\ GapInBuf(buf, gap)
        /\ Slice(buf, 0, gap.start) = TextSlice(PreText, 0, last.a)
        /\ Slice(buf, gap.end, Len(buf)) = TextSlice(PreText, last.a, Len(PreText))

\* C27: move_gap_start_to(to) with to <= len() never panics: the guard in front of
\* the non-overlapping copy is false for the copy each shortcut asks for.
C27_GuardUnreachable ==
    (/\ last.op = "move_gap_start_to"
     /\ GapInBuf(last.pre_buf, last.pre_gap)
     /\ last.a <= PreLen) =>
        LET sd == surrounds_gap_range(last.pre_gap, last.a)
            src == IF sd.dir = "Right" THEN last.pre_gap.end ELSE last.a
            dst == IF sd.dir = "Right" THEN last.pre_gap.start ELSE last.pre_gap.end - sd.n
        IN /\ last.res # "Panic"
           /\ (last.pre_gap.start # last.a /\ PreGapLen > 0 /\ sd.dir # "False")
                 => ~invalid_offset(last.pre_buf, src, dst, sd.n)

\* C28: move_gap_start_to(to) with to > len() returns
\* Err(OutOfBounds { len: len(), target: to }) and leaves the gap and the buffer
\* as they were, with an empty gap as with a non-empty one.
C28_MoveGapOutOfBounds ==
    (/\ last.op = "move_gap_start_to"
     /\ GapInBuf(last.pre_buf, last.pre_gap)
     /\ last.a > PreLen) =>
        /\ last.res = "OutOfBounds"
        /\ last.elen = PreLen /\ last.etarget = last.a
        /\ gap = last.pre_gap
        /\ buf = last.pre_buf

\* C29: delete(range) and replace(range, s) with range.end > len() or
\* range.start > range.end return Err(OutOfBounds) and leave the text, len() and
\* the gap as they were.
C29_RangeOutOfBounds ==
    (/\ last.op \in {"delete", "replace"}
     /\ GapInBuf(last.pre_buf, last.pre_gap)
     /\ last.b > PreLen \/ last.a > last.b) =>
        /\ last.res = "OutOfBounds"
        /\ CurText = PreText
        /\ CurLen = PreLen
        /\ gap = last.pre_gap

\* C30: in every state the constructors and the methods of GapText reach,
\* gap.start <= gap.end <= buf.len(), so len() does not underflow.
C30_GapInsideBuf ==
    /\ GapInBuf(buf, gap)
    /\ CurLen >= 0

\* C31: in every state insert, delete, replace and get calls reach, failing calls
\* included, the gap starts on a character boundary of the text; stated here for
\* the states whose gap lies inside the buffer and whose text is the reference
\* string.
C31_GapOnBoundary ==
    (GapInBuf(buf, gap) /\ CurText = ref) => IsCharBoundary(CurText, gap.start)

\* C32: after an insert(at, s) that returns Ok with s longer than the gap, the gap
\* starts at at + len(s), is base_gap_size long and buf.len() is
\* len() + base_gap_size; after one whose s fits the gap, the gap starts at
\* at + len(s) and ends where it ended when s was written (at + the old gap length).
C32_GapAfterInsert ==
    (last.op = "insert" /\ last.res = "Ok" /\ GapInBuf(last.pre_buf, last.pre_gap)) =>
        IF Len(last.s) > PreGapLen
        THEN /\ gap.start = last.a + Len(last.s)
             /\ gap.end = gap.start + base_gap_size
             /\ RangeLen(gap) = base_gap_size
             /\ Len(buf) = CurLen + base_gap_size
        ELSE /\ gap.start = last.a + Len(last.s)
             /\ gap.end = last.a + PreGapLen
             /\ last.pre_gap.start = last.a => gap.end = last.pre_gap.end

\* an insert longer than a non-empty gap, with a configured gap size other than 512
C32_Witness ==
    /\ last.op = "insert" /\ last.res = "Ok"
    /\ 0 < PreGapLen /\ PreGapLen < Len(last.s)
    /\ base_gap_size # DEFAULT_GAP_SIZE /\ base_gap_size > 0
    /\ GapInBuf(last.pre_buf, last.pre_gap)

\* the slots of the gap, as offsets into the allocation
GapSpan(rb) == {i \in 0..(Len(rb.mem) - 1) : start_len(rb) <= i /\ i < rb.end_ptr}
\* the slots whose content differs between two states of the same allocation
Changed(old, new) ==
    {i \in 0..(Len(old.mem) - 1) : i >= Len(new.mem) \/ old.mem[i + 1] # new.mem[i + 1]}
RawDist == AbsDiff(rlast.a, start_len(RawPre))

\* C33: move_gap_start_to(to) with to > len() panics with nothing copied and both
\* slices as they were; with to = start_len() it returns with nothing copied and
\* nothing changed.
C33_RawMoveEdges ==
    rlast.op = "move_gap_start_to" =>
        /\ rlast.a > raw_len(RawPre) =>
              rlast.res = "Panic" /\ rlast.copy = NoCopy /\ raw = RawPre
        /\ rlast.a = start_len(RawPre) =>
              rlast.res = "Ok" /\ rlast.copy = NoCopy /\ raw = RawPre

\* a move past the end of a buffer that holds elements on both sides of a gap
C33_Witness ==
    /\ rlast.op = "move_gap_start_to" /\ rlast.res = "Panic"
    /\ rlast.a > raw_len(RawPre)
    /\ start_len(RawPre) > 0 /\ end_len(RawPre) > 0 /\ gap_len(RawPre) > 0

\* C34: a move_gap_start_to(to) by 0 < d <= gap_len makes one copy_to_nonoverlapping
\* of d elements whose source and destination spans do not overlap, so that the
\* debug assertion holds; a move by d > gap_len makes the overlapping-safe copy_to.
C34_RawMoveCopyKind ==
    (rlast.op = "move_gap_start_to" /\ rlast.a <= raw_len(RawPre) /\ RawDist > 0) =>
        /\ rlast.res = "Ok"
        /\ rlast.copy.count = RawDist
        /\ RawDist <= gap_len(RawPre) =>
              /\ rlast.copy.kind = "Nonoverlapping"
              /\ AbsDiff(rlast.copy.src, rlast.copy.dst) >= rlast.copy.count
        /\ rlast.copy.kind = "Overlapping" <=> RawDist > gap_len(RawPre)

\* a move to the left by exactly the gap length
C34_Witness ==
    /\ rlast.op = "move_gap_start_to" /\ rlast.res = "Ok"
    /\ start_len(RawPre) - rlast.a = gap_len(RawPre)
    /\ gap_len(RawPre) = 2
    /\ rlast.copy.kind = "Nonoverlapping"

\* C35 as stated: move_gap_start_to(to) copies |to - start_len| elements and every
\* slot outside the union of the old and the new gap span holds what it held.
C35_RawMoveInGapUnion ==
    (rlast.op = "move_gap_start_to" /\ rlast.a <= raw_len(RawPre)) =>
        /\ rlast.copy.count = RawDist
        /\ Changed(RawPre, raw) \subseteq (GapSpan(RawPre) \cup GapSpan(raw))

\* C35, amended: move_gap_start_to(to) copies |to - start_len| elements, the
\* allocation afterwards is the old one with exactly that block copied, and every
\* slot outside the span from the lower gap start to the higher gap end holds what
\* it held; for a move by at most gap_len that span is the union of the old and the
\* new gap span.
C35_RawMoveMinimal ==
    (rlast.op = "move_gap_start_to" /\ rlast.a <= raw_len(RawPre)) =>
        LET lo == Min(rlast.a, start_len(RawPre))
            hi == Max(rlast.a, start_len(RawPre)) + gap_len(RawPre)
            c == rlast.copy
        IN /\ c.count = RawDist
           /\ raw.mem = CopyInto(RawPre.mem, c.dst, Slice(RawPre.mem, c.src, c.src + c.count))
           /\ Changed(RawPre, raw) \subseteq {i \in 0..(Len(RawPre.mem) - 1) : lo <= i /\ i < hi}
           /\ RawDist <= gap_len(RawPre) =>
                 Changed(RawPre, raw) \subseteq (GapSpan(RawPre) \cup GapSpan(raw))

\* a move by more than the gap length that changed a slot between the two gap spans
C35_Witness ==
    /\ rlast.op = "move_gap_start_to" /\ rlast.res = "Ok"
    /\ RawDist > gap_len(RawPre) /\ gap_len(RawPre) > 0
    /\ Changed(RawPre, raw) \ (GapSpan(RawPre) \cup GapSpan(raw)) # {}
    /\ Len(raw.mem) > RawDist + gap_len(RawPre)

C37_RawLayout ==
    /\ total_len(raw) = start_len(raw) + gap_len(raw) + end_len(raw)
    /\ total_len(raw) = Len(raw.mem)
    /\ start_len(raw) >= 0 /\ gap_len(raw) >= 0 /\ end_len(raw) >= 0
    /\ raw.end_ptr = start_len(raw) + gap_len(raw)
    /\ raw_len(raw) = start_len(raw) + end_len(raw)
    /\ raw_len(raw) = Len(RawSeq(raw))

\* a gap shrunk after it was moved between elements
C37_Witness ==
    /\ rlast.op = "shrink_gap" /\ rlast.res = "Ok" /\ rlast.a > 0
    /\ start_len(raw) > 0 /\ end_len(raw) > 0
    /\ nops = 2

\* C38: for a zero-sized element type move_gap_start_to(to) with to <= len() leaves
\* start_len() = to and end_len() = len() - to, with len() as it was.
C38_ZstMoveAccounts ==
    (rlast.op = "move_gap_start_to" /\ rlast.a <= raw_len(RawPre)) =>
        /\ rlast.res = "Ok"
        /\ start_len(raw) = rlast.a
        /\ end_len(raw) = raw_len(RawPre) - rlast.a
        /\ raw_len(raw) = raw_len(RawPre)

\* C39: while the iterator is held, as_slice() is exactly the elements that were
\* neither yielded nor destroyed, a run of neighbours in their original order; a
\* next(), next_back() or nth() that returns None leaves that slice empty, and any
\* of the three called on an empty slice returns None, destroys nothing, yields
\* nothing and leaves the slice empty, so that None is followed by None for ever.
C39_DrainFused ==
    /\ drain.alive =>
          /\ as_slice(drain) = {i \in 1..drain.n : drain.yielded[i] = 0 /\ drain.dropped[i] = 0}
          /\ as_slice(drain) = {i \in 1..drain.n : drain.ptr < i /\ i <= drain.ptr + drain.len}
          /\ Cardinality(as_slice(drain)) = drain.len
    /\ dlast.op \in {"next", "next_back", "nth"} =>
          /\ dlast.res = "None" => as_slice(drain) = {}
          /\ as_slice(DrainPre) = {} =>
                /\ dlast.res = "None"
                /\ drain.dropped = DrainPre.dropped
                /\ drain.yielded = DrainPre.yielded
                /\ as_slice(drain) = {}

\* a next() on a drain of four that nth() had exhausted after one element was pulled
C39_Witness ==
    /\ dlast.op = "next" /\ dlast.res = "None"
    /\ drain.alive /\ drain.n = 4 /\ DrainPre.len = 0
    /\ drain.yielded[4] = 1
    /\ \A i \in 1..3 : drain.dropped[i] = 1

====
